---- MODULE Spec2Model ----
(***************************************************************************)
(* Model of the UTF-16 binding of IcuStrRef (src/src/utf16.rs): the        *)
(* start-offset validator icu_chars, the cursor Utf16CharIndices with its  *)
(* next() / decode_next_utf16() step, and the classifier as_utf16_type.    *)
(* A panic of the Rust code is modelled as a terminal status of the call.  *)
(* Rust slices are 0-indexed; TLA+ sequences are 1-indexed, so the unit at *)
(* Rust index i of a slice s is At(s, i) == s[i + 1].                      *)
(*                                                                         *)
(* Specifications:                                                         *)
(*   Spec       one cursor over a buffer, with resumptions (Rewind)        *)
(*   SpecRun    one iteration pulled to its end (weak fairness of next)    *)
(*   SpecShared several cursors over one buffer, interleaved               *)
(*   SpecStr    the &str binding (src/src/icu_str.rs) on UTF-8 bytes       *)
(*   SpecUnits  as_utf16_type and the first next() on every 16-bit unit    *)
(***************************************************************************)
EXTENDS Integers, Sequences, FiniteSets, TLC

\* ------------------------------------------------------------------ bounds
\* Longest buffer explored.
MaxLen == 4
\* Longest chain of resumptions (icu_chars at start + yielded offset).
MaxHops == 2
\* How many times next() is called again on a cursor that has returned None.
MaxNones == 2
\* Longest buffer of the iterations checked for termination.
MaxLenRun == 3
\* Cursors alive at once over one buffer, and the longest buffer they share.
NCursors == 2
MaxLenShared == 2
\* Longest &str explored, in chars.
MaxChars == 3

\* ------------------------------------------------------- program constants
HighMin == 55296
HighMax == 56319
LowMin == 56320
LowMax == 57343
Latin1Max == 255
SuppBase == 65536
REPLACEMENT_CHARACTER == 65533
CharMax == 1114111
U16Max == 65535

\* The 16-bit unit values buffers are built from: an 8-bit unit ('A'), a BMP
\* unit above 0xFF (the euro sign), two high surrogates (0xD801 and the top
\* of the range) and a low surrogate (0xDC37).
Units == {65, 8364, 55297, 56319, 56375}

\* All buffers of at most MaxLen units.
Buffers == UNION {[1..k -> Units] : k \in 0..MaxLen}

\* The buffers several cursors share: 'A', a high and a low surrogate.
SharedUnits == {65, 55297, 56375}
SharedBuffers == UNION {[1..k -> SharedUnits] : k \in 0..MaxLenShared}
CursorIds == 1..NCursors

\* ------------------------------------------------------------- helpers
\* s[i] in Rust indexing.
At(s, i) == s[i + 1]

\* &s[i..] for i <= len.
SliceFrom(s, i) == SubSeq(s, i + 1, Len(s))

\* std::char::from_u32: None for a surrogate or a value above 0x10FFFF.
from_u32(x) ==
  IF x >= 0 /\ x <= CharMax /\ ~(x >= HighMin /\ x <= LowMax)
  THEN [some |-> TRUE, c |-> x]
  ELSE [some |-> FALSE, c |-> 0]

\* ------------------------------------------------------------ classifier
\* as_utf16_type without the arm for 0xDC00..=0xDFFF: a low surrogate falls
\* through to from_u32(v).unwrap().
as_utf16_type_no_low_arm(v) ==
  IF v >= 0 /\ v <= Latin1Max
  THEN [type |-> "Normal", val |-> v % 256, ok |-> TRUE]
  ELSE IF v >= HighMin /\ v <= HighMax
  THEN [type |-> "HighSurrogate", val |-> v, ok |-> TRUE]
  ELSE [type |-> "Normal", val |-> from_u32(v).c, ok |-> from_u32(v).some]

\* as_utf16_type with the first arm's cast (v as u8 as char) in the last arm
\* too: a unit above 0xFF is cut to its low byte.
as_utf16_type_cast_u8(v) ==
  IF v >= HighMin /\ v <= HighMax
  THEN [type |-> "HighSurrogate", val |-> v, ok |-> TRUE]
  ELSE IF v >= LowMin /\ v <= LowMax
  THEN [type |-> "LowSurrogate", val |-> v, ok |-> TRUE]
  ELSE [type |-> "Normal", val |-> v % 256, ok |-> TRUE]

\* as_utf16_type with 0xD800..0xDBFF, the end not included: 0xDBFF falls
\* through to from_u32(v).unwrap().
as_utf16_type_open_range(v) ==
  IF v >= 0 /\ v <= Latin1Max
  THEN [type |-> "Normal", val |-> v % 256, ok |-> TRUE]
  ELSE IF v >= HighMin /\ v < HighMax
  THEN [type |-> "HighSurrogate", val |-> v, ok |-> TRUE]
  ELSE IF v >= LowMin /\ v <= LowMax
  THEN [type |-> "LowSurrogate", val |-> v, ok |-> TRUE]
  ELSE [type |-> "Normal", val |-> from_u32(v).c, ok |-> from_u32(v).some]

\* fn as_utf16_type(v: u16) -> Utf16Type.  ok = FALSE is a failed unwrap().
as_utf16_type(v) ==
  IF v >= 0 /\ v <= Latin1Max
  THEN [type |-> "Normal", val |-> v % 256, ok |-> TRUE]
  ELSE IF v >= HighMin /\ v <= HighMax
  THEN [type |-> "HighSurrogate", val |-> v, ok |-> TRUE]
  ELSE IF v >= LowMin /\ v <= LowMax
  THEN [type |-> "LowSurrogate", val |-> v, ok |-> TRUE]
  ELSE [type |-> "Normal", val |-> from_u32(v).c, ok |-> from_u32(v).some]

\* is_enum!(as_utf16_type(v), Utf16Type::HighSurrogate(_))
IsHigh(v) == as_utf16_type(v).type = "HighSurrogate"

\* is_enum!(as_utf16_type(v), Utf16Type::LowSurrogate(_))
IsLow(v) == as_utf16_type(v).type = "LowSurrogate"

\* The pair formula without the + 0x10000.
PairChar_no_base(hi, lo) ==
  LET d1 == hi - HighMin
      d2 == lo - LowMin
      sum == (d1 * 1024) + d2
  IN  IF d1 < 0 \/ d2 < 0
      THEN [ok |-> FALSE, c |-> 0]
      ELSE [ok |-> from_u32(sum).some, c |-> from_u32(sum).c]

\* The pair arithmetic subtracting 0xD800 from both units.
PairArith_one_base(hi, lo) ==
  LET d1 == hi - HighMin
      d2 == lo - HighMin
      sh == d1 * 1024
  IN  [d1 |-> d1, d2 |-> d2, sh |-> sh, sum |-> sh + d2 + SuppBase]

\* The values of ((hi - 0xD800) << 10) + (lo - 0xDC00) + 0x10000 as integers:
\* the two differences, the shifted difference and the sum.
PairArith(hi, lo) ==
  LET d1 == hi - HighMin
      d2 == lo - LowMin
      sh == d1 * 1024
  IN  [d1 |-> d1, d2 |-> d2, sh |-> sh, sum |-> sh + d2 + SuppBase]

\* ((hi - 0xD800) << 10) + (lo - 0xDC00) + 0x10000 in u32 arithmetic, then
\* from_u32(..).unwrap().  hi and lo are u16 values widened to u32, so the
\* shifted value is below 2^26 and no addition can reach 2^32; a subtraction
\* underflows when its left operand is the smaller one.  ok = FALSE when a
\* subtraction underflows or the unwrap fails.
PairChar(hi, lo) ==
  LET a == PairArith(hi, lo)
  IN  IF a.d1 < 0 \/ a.d2 < 0
      THEN [ok |-> FALSE, c |-> 0]
      ELSE [ok |-> from_u32(a.sum).some, c |-> from_u32(a.sum).c]

\* ---------------------------------------------------------------- decoder
\* The decoder without the second self.n += 1: a pair yields its code point
\* but only the high surrogate is consumed.
decode_next_utf16_low_not_consumed(utf16, n) ==
  LET v == At(utf16, n)
      n1 == n + 1
      t == as_utf16_type(v)
  IN  IF t.type = "Normal"
      THEN [n |-> n1, c |-> t.val, panic |-> ~t.ok]
      ELSE IF t.type = "HighSurrogate" /\ n1 < Len(utf16)
                /\ as_utf16_type(At(utf16, n1)).type = "LowSurrogate"
      THEN [n |-> n1,
            c |-> PairChar(t.val, At(utf16, n1)).c,
            panic |-> ~PairChar(t.val, At(utf16, n1)).ok]
      ELSE [n |-> n1, c |-> REPLACEMENT_CHARACTER, panic |-> FALSE]

\* The decoder with the second self.n += 1 ahead of the inner match: a high
\* surrogate swallows the unit after it whatever that unit is.
decode_next_utf16_eager_skip(utf16, n) ==
  LET v == At(utf16, n)
      n1 == n + 1
      t == as_utf16_type(v)
  IN  IF t.type = "Normal"
      THEN [n |-> n1, c |-> t.val, panic |-> ~t.ok]
      ELSE IF t.type = "HighSurrogate" /\ n1 < Len(utf16)
      THEN IF as_utf16_type(At(utf16, n1)).type = "LowSurrogate"
           THEN [n |-> n1 + 1,
                 c |-> PairChar(t.val, At(utf16, n1)).c,
                 panic |-> ~PairChar(t.val, At(utf16, n1)).ok]
           ELSE [n |-> n1 + 1, c |-> REPLACEMENT_CHARACTER, panic |-> FALSE]
      ELSE [n |-> n1, c |-> REPLACEMENT_CHARACTER, panic |-> FALSE]

\* The decoder advancing in the arms that return a decoded char only: the
\* replacement arms leave self.n where it was.
decode_next_utf16_no_advance_on_replacement(utf16, n) ==
  LET v == At(utf16, n)
      n1 == n + 1
      t == as_utf16_type(v)
  IN  IF t.type = "Normal"
      THEN [n |-> n1, c |-> t.val, panic |-> ~t.ok]
      ELSE IF t.type = "HighSurrogate" /\ n1 < Len(utf16)
                /\ as_utf16_type(At(utf16, n1)).type = "LowSurrogate"
      THEN [n |-> n1 + 1,
            c |-> PairChar(t.val, At(utf16, n1)).c,
            panic |-> ~PairChar(t.val, At(utf16, n1)).ok]
      ELSE [n |-> n, c |-> REPLACEMENT_CHARACTER, panic |-> FALSE]

\* fn decode_next_utf16(&mut self) -> char, as a function of the cursor's
\* slice and position: the new position, the char, and whether it panicked.
decode_next_utf16(utf16, n) ==
  IF n >= Len(utf16)
  THEN [n |-> n, c |-> 0, panic |-> TRUE]
  ELSE
    LET v == At(utf16, n)
        n1 == n + 1
        t == as_utf16_type(v)
    IN  IF ~t.ok
        THEN [n |-> n1, c |-> 0, panic |-> TRUE]
        ELSE IF t.type = "Normal"
        THEN [n |-> n1, c |-> t.val, panic |-> FALSE]
        ELSE IF t.type = "HighSurrogate" /\ n1 < Len(utf16)
        THEN
          LET t2 == as_utf16_type(At(utf16, n1))
          IN  IF ~t2.ok
              THEN [n |-> n1, c |-> 0, panic |-> TRUE]
              ELSE IF t2.type = "LowSurrogate"
              THEN [n |-> n1 + 1,
                    c |-> PairChar(t.val, t2.val).c,
                    panic |-> ~PairChar(t.val, t2.val).ok]
              ELSE [n |-> n1, c |-> REPLACEMENT_CHARACTER, panic |-> FALSE]
        ELSE [n |-> n1, c |-> REPLACEMENT_CHARACTER, panic |-> FALSE]

\* The indices of self.utf16 that decode_next_utf16 reads: self.utf16[self.n]
\* and, after a high surrogate when the match guard holds, the unit after it.
decode_reads(utf16, n) ==
  {n} \cup (IF n < Len(utf16) /\ IsHigh(At(utf16, n)) /\ n + 1 < Len(utf16)
            THEN {n + 1}
            ELSE {})

\* next() testing self.n <= self.utf16.len(): it decodes once more at the end.
next_inclusive_end(utf16, n) ==
  IF n <= Len(utf16)
  THEN LET d == decode_next_utf16(utf16, n)
       IN  [some |-> TRUE, item |-> <<n, d.c>>, n |-> d.n, panic |-> d.panic,
            reads |-> decode_reads(utf16, n)]
  ELSE [some |-> FALSE, item |-> <<>>, n |-> n, panic |-> FALSE, reads |-> {}]

\* next() rewinding the cursor when it reaches the end: self.n = 0 before the
\* None is returned.
next_restarting(utf16, n) ==
  IF n < Len(utf16)
  THEN LET d == decode_next_utf16(utf16, n)
       IN  [some |-> TRUE, item |-> <<n, d.c>>, n |-> d.n, panic |-> d.panic,
            reads |-> decode_reads(utf16, n)]
  ELSE [some |-> FALSE, item |-> <<>>, n |-> 0, panic |-> FALSE, reads |-> {}]

\* fn next(&mut self) -> Option<(usize, char)>.  reads are the indices of
\* self.utf16 the call reads.
next(utf16, n) ==
  IF n < Len(utf16)
  THEN LET d == decode_next_utf16(utf16, n)
       IN  [some |-> TRUE, item |-> <<n, d.c>>, n |-> d.n, panic |-> d.panic,
            reads |-> decode_reads(utf16, n)]
  ELSE [some |-> FALSE, item |-> <<>>, n |-> n, panic |-> FALSE, reads |-> {}]

\* ------------------------------------------------------ start validation
\* icu_chars without the surrogate check: only &self[n..] can panic.
icu_chars_no_split_check(self, n) ==
  IF n > Len(self)
  THEN [panic |-> "slice", utf16 |-> <<>>, n |-> 0]
  ELSE [panic |-> "none", utf16 |-> SliceFrom(self, n), n |-> 0]

\* icu_chars reading and slicing with get(): an offset past the end gives an
\* empty cursor instead of a panic.
icu_chars_clamped(self, n) ==
  IF n > 0 /\ n < Len(self) /\ IsHigh(At(self, n - 1)) /\ IsLow(At(self, n))
  THEN [panic |-> "split", utf16 |-> <<>>, n |-> 0]
  ELSE IF n > Len(self)
  THEN [panic |-> "none", utf16 |-> <<>>, n |-> 0]
  ELSE [panic |-> "none", utf16 |-> SliceFrom(self, n), n |-> 0]

\* icu_chars keeping the whole slice and starting the cursor at n, so the
\* yielded offsets are absolute.
icu_chars_absolute(self, n) ==
  IF n > 0 /\ n < Len(self) /\ IsHigh(At(self, n - 1)) /\ IsLow(At(self, n))
  THEN [panic |-> "split", utf16 |-> <<>>, n |-> 0]
  ELSE IF n > Len(self)
  THEN [panic |-> "slice", utf16 |-> <<>>, n |-> 0]
  ELSE [panic |-> "none", utf16 |-> self, n |-> n]

\* icu_chars testing the units at n and n + 1 instead of n - 1 and n.
icu_chars_checks_ahead(self, n) ==
  IF n + 1 < Len(self) /\ IsHigh(At(self, n)) /\ IsLow(At(self, n + 1))
  THEN [panic |-> "split", utf16 |-> <<>>, n |-> 0]
  ELSE IF n > Len(self)
  THEN [panic |-> "slice", utf16 |-> <<>>, n |-> 0]
  ELSE [panic |-> "none", utf16 |-> SliceFrom(self, n), n |-> 0]

\* fn icu_chars(self, n: usize) -> Utf16CharIndices.  panic is "none" or the
\* place that panicked: "index" (self[n - 1] or self[n] out of bounds),
\* "split" (the explicit panic!) or "slice" (&self[n..] out of range).
icu_chars(self, n) ==
  LET made == [panic |-> "none", utf16 |-> SliceFrom(self, n), n |-> 0]
      fail(why) == [panic |-> why, utf16 |-> <<>>, n |-> 0]
      slice == IF n > Len(self) THEN fail("slice") ELSE made
  IN  IF n > 0 /\ Len(self) > 1
      THEN IF n - 1 >= Len(self)
           THEN fail("index")
           ELSE IF IsHigh(At(self, n - 1))
           THEN IF n >= Len(self)
                THEN fail("index")
                ELSE IF IsLow(At(self, n))
                THEN fail("split")
                ELSE slice
           ELSE slice
      ELSE slice

\* ------------------------------------------------------------------ state
VARIABLES
  buf,      \* the caller's buffer (&[u16]), never written
  status,   \* "idle" | "iter" | "begin_panic" | "next_panic"
  start,    \* the offset given to the last icu_chars call
  hops,     \* how many resumptions led to that call
  utf16,    \* the cursor's slice
  n,        \* the cursor's position in its slice
  out,      \* the items the cursor has yielded, in order
  last,     \* what the last next() returned: "-" | "Some" | "None"
  reads,    \* the indices of utf16 the last next() read
  nones,    \* how many times the cursor has returned None
  curs,     \* SpecShared: the cursors over buf, by cursor id
  tchars,   \* SpecStr: the chars the &str was written with
  text,     \* SpecStr: the bytes of the &str (UTF-8)
  tstatus,  \* SpecStr: "idle" | "iter" | "begin_panic"
  tstart,   \* SpecStr: the offset given to icu_chars
  tslice,   \* SpecStr: the bytes CharIndices iterates
  tpos,     \* SpecStr: CharIndices' front offset
  tout,     \* SpecStr: the items yielded
  tlast,    \* SpecStr: what the last next() returned
  pin,      \* SpecUnits: a buffer of one or two units
  pcls,     \* SpecUnits: as_utf16_type of its first unit
  parith,   \* SpecUnits: the pair arithmetic of the decoding, if any
  pdec,     \* SpecUnits: the first next() of a cursor over the buffer
  ppc       \* SpecUnits: "start" | "classified" | "decoded"

\* The single cursor of Spec.
cvars == <<status, start, hops, utf16, n, out, last, reads, nones>>

\* The state of the other specifications of this module.
\* The iteration over a &str of SpecStr.
tvars == <<tchars, text, tstatus, tstart, tslice, tpos, tout, tlast>>

\* One unit classified and decoded, of SpecUnits.
pvars == <<pin, pcls, parith, pdec, ppc>>

others == <<curs, tvars, pvars>>

\* What the actions of SpecShared leave alone.
notShared == <<cvars, tvars, pvars>>

vars == <<buf, cvars, others>>

\* No cursor has been made.
NoCursor ==
  /\ status = "idle"
  /\ start = 0
  /\ hops = 0
  /\ utf16 = <<>>
  /\ n = 0
  /\ out = <<>>
  /\ last = "-"
  /\ reads = {}
  /\ nones = 0

\* The other specifications are not running.
\* A cursor id with no cursor.
NoCursorRec ==
  [status |-> "idle", start |-> 0, utf16 |-> <<>>, n |-> 0, out |-> <<>>,
   last |-> "-"]

\* No &str is iterated.
NoText ==
  /\ tchars = <<>>
  /\ text = <<>>
  /\ tstatus = "idle"
  /\ tstart = 0
  /\ tslice = <<>>
  /\ tpos = 0
  /\ tout = <<>>
  /\ tlast = "-"

\* No unit is being classified.
NoUnits ==
  /\ pin = <<>>
  /\ pcls = <<>>
  /\ parith = <<>>
  /\ pdec = <<>>
  /\ ppc = "-"

OthersIdle ==
  /\ curs = [c \in CursorIds |-> NoCursorRec]
  /\ NoText
  /\ NoUnits

Init ==
  /\ buf \in Buffers
  /\ NoCursor
  /\ OthersIdle

\* The state after a call icu_chars(k) on the buffer.
Begin(k, h) ==
  LET r == icu_chars(buf, k)
  IN  /\ status' = IF r.panic = "none" THEN "iter" ELSE "begin_panic"
      /\ start' = k
      /\ hops' = h
      /\ utf16' = r.utf16
      /\ n' = r.n
      /\ out' = <<>>
      /\ last' = "-"
      /\ reads' = {}
      /\ nones' = 0
      /\ UNCHANGED <<buf, others>>

\* A caller starts an iteration at an offset of its choosing.
IcuChars ==
  /\ status = "idle"
  /\ \E k \in 0..(Len(buf) + 2) : Begin(k, 0)

\* A caller resumes at the start of the iteration plus an offset it yielded.
Rewind ==
  /\ status = "iter"
  /\ hops < MaxHops
  /\ \E i \in 1..Len(out) : Begin(start + out[i][1], hops + 1)

\* One call of next() on the cursor.
CallNext ==
  /\ status = "iter"
  /\ nones < MaxNones
  /\ LET r == next(utf16, n)
     IN  /\ status' = IF r.panic THEN "next_panic" ELSE "iter"
         /\ n' = r.n
         /\ out' = IF r.some /\ ~r.panic THEN Append(out, r.item) ELSE out
         /\ last' = IF r.panic THEN "-" ELSE IF r.some THEN "Some" ELSE "None"
         /\ reads' = r.reads
         /\ nones' = IF r.some \/ r.panic THEN nones ELSE nones + 1
  /\ UNCHANGED <<buf, start, hops, utf16, others>>

Next == IcuChars \/ Rewind \/ CallNext

Spec == Init /\ [][Next]_vars

\* ------------------------------------------------- one iteration, pulled
\* One icu_chars call and the next() calls on its cursor.  The caller keeps
\* pulling: collect(), or a for loop, calls next() again until it returns
\* None, which is the weak fairness of CallNext.
RunBuffers == UNION {[1..k -> Units] : k \in 0..MaxLenRun}

InitRun ==
  /\ buf \in RunBuffers
  /\ NoCursor
  /\ OthersIdle

NextRun == IcuChars \/ CallNext

SpecRun == InitRun /\ [][NextRun]_vars /\ WF_vars(CallNext)

\* ------------------------------------------- several cursors, one buffer
InitShared ==
  /\ buf \in SharedBuffers
  /\ NoCursor
  /\ NoText
  /\ NoUnits
  /\ curs = [c \in CursorIds |-> NoCursorRec]

\* icu_chars(k) on the shared buffer makes cursor c.
SharedIcuChars(c) ==
  /\ curs[c].status = "idle"
  /\ \E k \in 0..(Len(buf) + 1) :
       LET r == icu_chars(buf, k)
       IN  curs' = [curs EXCEPT ![c] =
                      [status |-> IF r.panic = "none" THEN "iter"
                                  ELSE "begin_panic",
                       start |-> k, utf16 |-> r.utf16, n |-> r.n,
                       out |-> <<>>, last |-> "-"]]
  /\ UNCHANGED <<buf, notShared>>

\* next() on a cursor whose position is a counter shared by all cursors.
SharedNext_one_position(c) ==
  /\ curs[c].status = "iter"
  /\ LET r == next(curs[c].utf16, curs[c].n)
         moved == [d \in CursorIds |->
                     IF curs[d].status = "iter"
                     THEN [curs[d] EXCEPT !.n = r.n]
                     ELSE curs[d]]
     IN  curs' = [moved EXCEPT ![c] =
                    [moved[c] EXCEPT
                       !.status = IF r.panic THEN "next_panic" ELSE "iter",
                       !.out = IF r.some /\ ~r.panic
                               THEN Append(curs[c].out, r.item)
                               ELSE curs[c].out,
                       !.last = IF r.panic THEN "-"
                                ELSE IF r.some THEN "Some" ELSE "None"]]
  /\ UNCHANGED <<buf, notShared>>

\* One call of next() on cursor c.
SharedNext(c) ==
  /\ curs[c].status = "iter"
  /\ LET r == next(curs[c].utf16, curs[c].n)
     IN  curs' = [curs EXCEPT ![c] =
                    [curs[c] EXCEPT
                       !.status = IF r.panic THEN "next_panic" ELSE "iter",
                       !.n = r.n,
                       !.out = IF r.some /\ ~r.panic
                               THEN Append(curs[c].out, r.item)
                               ELSE curs[c].out,
                       !.last = IF r.panic THEN "-"
                                ELSE IF r.some THEN "Some" ELSE "None"]]
  /\ UNCHANGED <<buf, notShared>>

\* Cursor c is discarded.
SharedDrop(c) ==
  /\ curs[c].status = "iter"
  /\ curs' = [curs EXCEPT ![c] = NoCursorRec]
  /\ UNCHANGED <<buf, notShared>>

NextShared ==
  \E c \in CursorIds : SharedIcuChars(c) \/ SharedNext(c) \/ SharedDrop(c)

SpecShared == InitShared /\ [][NextShared]_vars

\* ------------------------------------------------------ the &str binding
\* The chars the strings are written with: one of each UTF-8 length
\* ('A', the cent sign, the euro sign, U+10348).
TextChars == {65, 162, 8364, 66376}
Strings == UNION {[1..k -> TextChars] : k \in 0..MaxChars}

\* The UTF-8 bytes of one char, as a string literal holds them.
Utf8Char(c) ==
  IF c < 128 THEN <<c>>
  ELSE IF c < 2048 THEN <<192 + (c \div 64), 128 + (c % 64)>>
  ELSE IF c < 65536
  THEN <<224 + (c \div 4096), 128 + ((c \div 64) % 64), 128 + (c % 64)>>
  ELSE <<240 + (c \div 262144), 128 + ((c \div 4096) % 64),
         128 + ((c \div 64) % 64), 128 + (c % 64)>>

RECURSIVE Utf8(_)
Utf8(cs) == IF cs = <<>> THEN <<>> ELSE Utf8Char(Head(cs)) \o Utf8(Tail(cs))

\* str::is_char_boundary: 0 and len are boundaries, an index past len is
\* not, and inside the string a byte that is no continuation byte is one.
is_char_boundary(bytes, i) ==
  IF i = 0 \/ i = Len(bytes) THEN TRUE
  ELSE IF i > Len(bytes) THEN FALSE
  ELSE At(bytes, i) < 128 \/ At(bytes, i) >= 192

\* CharIndices::next on the bytes of a str at front offset i.
char_indices_next(bytes, i) ==
  IF i >= Len(bytes)
  THEN [some |-> FALSE, item |-> <<>>, pos |-> i]
  ELSE
    LET b0 == At(bytes, i)
        cont(k) == At(bytes, i + k) % 64
    IN  IF b0 < 128
        THEN [some |-> TRUE, item |-> <<i, b0>>, pos |-> i + 1]
        ELSE IF b0 < 224
        THEN [some |-> TRUE, item |-> <<i, ((b0 % 32) * 64) + cont(1)>>,
              pos |-> i + 2]
        ELSE IF b0 < 240
        THEN [some |-> TRUE,
              item |-> <<i, ((b0 % 16) * 4096) + (cont(1) * 64) + cont(2)>>,
              pos |-> i + 3]
        ELSE [some |-> TRUE,
              item |-> <<i, ((b0 % 8) * 262144) + (cont(1) * 4096)
                              + (cont(2) * 64) + cont(3)>>,
              pos |-> i + 4]

\* icu_chars written as char_indices().skip_while(|(i, _)| *i < start): it
\* never panics and the offsets are those of the whole string.
RECURSIVE SkipTo(_, _, _)
SkipTo(bytes, i, k) ==
  IF i >= k \/ i >= Len(bytes) THEN i
  ELSE SkipTo(bytes, char_indices_next(bytes, i).pos, k)

str_icu_chars_skipping(bytes, k) ==
  [panic |-> FALSE, slice |-> bytes, pos |-> SkipTo(bytes, 0, k)]

\* fn icu_chars(self, start: usize): self.as_ref()[start..].char_indices().
\* The slice panics unless start is a char boundary of the string.
str_icu_chars(bytes, k) ==
  IF is_char_boundary(bytes, k)
  THEN [panic |-> FALSE, slice |-> SliceFrom(bytes, k), pos |-> 0]
  ELSE [panic |-> TRUE, slice |-> <<>>, pos |-> 0]

\* What the actions of SpecStr leave alone.
notStr == <<buf, cvars, curs, pvars>>

InitStr ==
  /\ buf = <<>>
  /\ NoCursor
  /\ NoUnits
  /\ curs = [c \in CursorIds |-> NoCursorRec]
  /\ tchars \in Strings
  /\ text = Utf8(tchars)
  /\ tstatus = "idle"
  /\ tstart = 0
  /\ tslice = <<>>
  /\ tpos = 0
  /\ tout = <<>>
  /\ tlast = "-"

\* A caller starts an iteration over the &str at an offset of its choosing.
StrIcuChars ==
  /\ tstatus = "idle"
  /\ \E k \in 0..(Len(text) + 2) :
       LET r == str_icu_chars(text, k)
       IN  /\ tstatus' = IF r.panic THEN "begin_panic" ELSE "iter"
           /\ tstart' = k
           /\ tslice' = r.slice
           /\ tpos' = r.pos
  /\ tout' = <<>>
  /\ tlast' = "-"
  /\ UNCHANGED <<tchars, text, notStr>>

\* One call of next() on the CharIndices.
StrNext ==
  /\ tstatus = "iter"
  /\ LET r == char_indices_next(tslice, tpos)
     IN  /\ tpos' = r.pos
         /\ tout' = IF r.some THEN Append(tout, r.item) ELSE tout
         /\ tlast' = IF r.some THEN "Some" ELSE "None"
  /\ UNCHANGED <<tchars, text, tstatus, tstart, tslice, notStr>>

NextStr == StrIcuChars \/ StrNext

SpecStr == InitStr /\ [][NextStr]_vars

\* --------------------------------------------- every unit, one at a time
\* Values at and around the edges of the classifier's ranges.
EdgeUnits ==
  {0, 65, 255, 256, 55295, 55296, 55297, 56318, 56319, 56320, 56321, 56375,
   57342, 57343, 57344, 65533, 65535}
EdgeHighs == {55296, 55297, 56318, 56319}
EdgeLows == {56320, 56321, 56375, 57342, 57343}

\* The buffers of SpecUnits: every single unit, every high surrogate before
\* the edge low surrogates, the edge high surrogates before every low
\* surrogate, and every two edge units.
UnitInputs ==
  {<<v>> : v \in 0..U16Max}
    \cup {<<h, l>> : h \in HighMin..HighMax, l \in EdgeLows}
    \cup {<<h, l>> : h \in EdgeHighs, l \in LowMin..LowMax}
    \cup {<<v, w>> : v \in EdgeUnits, w \in EdgeUnits}

\* What the actions of SpecUnits leave alone.
notUnits == <<buf, cvars, curs, tvars>>

InitUnits ==
  /\ buf = <<>>
  /\ NoCursor
  /\ NoText
  /\ curs = [c \in CursorIds |-> NoCursorRec]
  /\ pin \in UnitInputs
  /\ pcls = <<>>
  /\ parith = <<>>
  /\ pdec = <<>>
  /\ ppc = "start"

\* as_utf16_type(v) on the first unit.
Classify ==
  /\ ppc = "start"
  /\ pcls' = as_utf16_type(pin[1])
  /\ ppc' = "classified"
  /\ UNCHANGED <<pin, parith, pdec, notUnits>>

\* icu_chars(0) on the buffer and the first next() of its cursor.
Decode ==
  /\ ppc = "classified"
  /\ LET c == icu_chars(pin, 0)
         r == next(c.utf16, c.n)
     IN  /\ pdec' = [r EXCEPT !.panic = r.panic \/ c.panic # "none"]
         /\ parith' = IF r.n = c.n + 2
                       THEN PairArith(At(c.utf16, c.n), At(c.utf16, c.n + 1))
                       ELSE <<>>
  /\ ppc' = "decoded"
  /\ UNCHANGED <<pin, pcls, notUnits>>

NextUnits == Classify \/ Decode

SpecUnits == InitUnits /\ [][NextUnits]_vars


\* ------------------------------------------------- iteration to exhaustion
\* .collect() on a cursor over the slice s: next() until it returns None.
RECURSIVE Drain(_, _, _)
Drain(s, k, acc) ==
  LET r == next(s, k)
  IN  IF r.some /\ ~r.panic
      THEN Drain(s, r.n, Append(acc, r.item))
      ELSE [items |-> acc, panic |-> r.panic]

Collect(s) == Drain(s, 0, <<>>)

\* ------------------------------------------------------ claim vocabulary
\* The surrogate ranges as the Unicode standard states them.
HighUnit(v) == v >= 55296 /\ v <= 56319
LowUnit(v) == v >= 56320 /\ v <= 57343

\* Offset k splits a valid pair of the buffer s.
SplitsPair(s, k) ==
  k > 0 /\ k < Len(s) /\ HighUnit(At(s, k - 1)) /\ LowUnit(At(s, k))

\* c is the code point whose UTF-16 encoding is the pair (hi, lo).
EncodesAs(c, hi, lo) ==
  /\ c >= 65536 /\ c <= 1114111
  /\ hi = 55296 + ((c - 65536) \div 1024)
  /\ lo = 56320 + ((c - 65536) % 1024)

\* The code points of a sequence of items.
Chars(items) == [i \in 1..Len(items) |-> items[i][2]]

\* The indices of the yielded items whose offset is o.
ItemsAt(o) == {i \in 1..Len(out) : out[i][1] = o}

\* A cursor exists and its last next() returned None.
Exhausted == status = "iter" /\ last = "None"

\* The cursor has moved past absolute position p of the buffer.
Passed(p) == status = "iter" /\ start <= p /\ n > p - start

\* icu_chars has been called (and either made a cursor or panicked).
Called == status # "idle"

\* --------------------------------------------------------------------- C1
\* C1: icu_chars(len) succeeds for every buffer and the cursor yields no
\* items.
C1_StartAtEndSucceeds ==
  (Called /\ start = Len(buf)) => (status = "iter" /\ out = <<>>)

\* --------------------------------------------------------------------- C2
\* C2: for every k <= len that does not split a pair, decoding the prefix
\* buf[0..k) and then the iteration icu_chars(k) give the code points of one
\* full pass over the buffer.
C2_SplitDecodeAgrees ==
  (Called /\ start <= Len(buf) /\ ~SplitsPair(buf, start)) =>
    /\ status = "iter"
    /\ Exhausted =>
         Chars(Collect(SubSeq(buf, 1, start)).items) \o Chars(out)
           = Chars(Collect(buf).items)

\* The same statement for the offsets at which the code does make a cursor:
\* the only offsets C2 covers and the code refuses are those of C1.
C2_AgreesWhereCursorMade ==
  (status = "iter" /\ Exhausted) =>
    Chars(Collect(SubSeq(buf, 1, start)).items) \o Chars(out)
      = Chars(Collect(buf).items)

C2_RefusedOnlyAtEnd ==
  (Called /\ start <= Len(buf) /\ ~SplitsPair(buf, start)
     /\ status = "begin_panic") =>
    (start = Len(buf) /\ Len(buf) > 1 /\ HighUnit(At(buf, start - 1)))

\* --------------------------------------------------------------------- C3
\* C3: icu_chars(n) succeeds when n is 0 or is the start of an iteration plus
\* an offset that iteration yielded, after any chain of such resumptions.
C3_YieldedOffsetsRestart ==
  status = "begin_panic" => (hops = 0 /\ start # 0)

\* A second resumption in a row, past a surrogate pair, made a cursor.
C3_Witness ==
  /\ status = "iter" /\ hops >= 2 /\ start >= 3
  /\ \E p \in 0..(start - 2) : HighUnit(At(buf, p)) /\ LowUnit(At(buf, p + 1))

\* --------------------------------------------------------------------- C4
\* C4: icu_chars(n) with 0 < n < len, a high surrogate at n-1 and a low
\* surrogate at n panics and makes no cursor.
C4_SplitPairRejected ==
  (Called /\ SplitsPair(buf, start)) =>
    (status = "begin_panic" /\ utf16 = <<>> /\ out = <<>> /\ last = "-")

C4_Witness ==
  Called /\ SplitsPair(buf, start) /\ status = "begin_panic"

\* --------------------------------------------------------------------- C5
\* C5: icu_chars(n) with n > len panics at the call: no cursor is made, no
\* next() runs and no (empty) sequence is reported.
C5_OutOfRangeRejected ==
  (Called /\ start > Len(buf)) =>
    (status = "begin_panic" /\ utf16 = <<>> /\ out = <<>> /\ last = "-")

C5_Witness ==
  Called /\ start > Len(buf) /\ Len(buf) <= 1 /\ status = "begin_panic"

\* --------------------------------------------------------------------- C6
\* C6: in an iteration begun at s <= p, a high surrogate at p followed by a
\* low surrogate at p+1 is decoded as exactly one item, at offset p - s,
\* whose code point is the one the pair encodes; position p+1 is never
\* yielded and the next item, if any, has offset p + 2 - s.
C6_PairIsOneItem ==
  status = "iter" =>
    \A p \in start..(Len(buf) - 2) :
      (HighUnit(At(buf, p)) /\ LowUnit(At(buf, p + 1))) =>
        /\ ItemsAt(p + 1 - start) = {}
        /\ Cardinality(ItemsAt(p - start)) <= 1
        /\ Passed(p) => (Cardinality(ItemsAt(p - start)) = 1 /\ n >= p + 2 - start)
        /\ \A i \in ItemsAt(p - start) :
             /\ EncodesAs(out[i][2], At(buf, p), At(buf, p + 1))
             /\ i < Len(out) => out[i + 1][1] = p + 2 - start

\* A pair after the start was decoded and another item followed it.
C6_Witness ==
  /\ status = "iter" /\ start > 0
  /\ \E p \in start..(Len(buf) - 2) :
       /\ HighUnit(At(buf, p)) /\ LowUnit(At(buf, p + 1))
       /\ \E i \in ItemsAt(p - start) : i < Len(out)

\* --------------------------------------------------------------------- C7
\* C7: an isolated surrogate (a high surrogate followed by a unit that is no
\* low surrogate, a high surrogate that is the last unit, a low surrogate
\* that is not the second unit of a decoded pair) yields exactly one item,
\* U+FFFD at the unit's own offset, and advances the cursor by one, so the
\* following unit is decoded on its own.
Isolated(p) ==
  \/ /\ HighUnit(At(buf, p))
     /\ (p + 1 = Len(buf) \/ ~LowUnit(At(buf, p + 1)))
  \/ /\ LowUnit(At(buf, p))
     /\ (p - 1 < start \/ ~HighUnit(At(buf, p - 1)))

C7_IsolatedSurrogateReplaced ==
  status = "iter" =>
    \A p \in start..(Len(buf) - 1) :
      Isolated(p) =>
        /\ Cardinality(ItemsAt(p - start)) <= 1
        /\ Passed(p) => Cardinality(ItemsAt(p - start)) = 1
        /\ \A i \in ItemsAt(p - start) :
             /\ out[i][2] = 65533
             /\ i < Len(out) => out[i + 1][1] = p + 1 - start
             /\ i = Len(out) => n = p + 1 - start

\* An unpaired high surrogate and an unpaired low surrogate were both
\* replaced and the unit after each was decoded on its own.
C7_Witness ==
  /\ status = "iter"
  /\ \E p \in start..(Len(buf) - 1), q \in start..(Len(buf) - 1) :
       /\ Isolated(p) /\ HighUnit(At(buf, p))
       /\ Isolated(q) /\ LowUnit(At(buf, q))
       /\ \E i \in ItemsAt(p - start) : i < Len(out)
       /\ \E j \in ItemsAt(q - start) : j < Len(out)

\* --------------------------------------------------------------------- C8
\* C8: within one iteration the yielded offsets strictly increase.
C8_OffsetsStrictlyIncrease ==
  \A i \in 1..(Len(out) - 1) : out[i][1] < out[i + 1][1]

\* Three items, one of them a decoded pair (a step of two).
C8_Witness ==
  /\ Len(out) >= 3
  /\ \E i \in 1..(Len(out) - 1) : out[i + 1][1] = out[i][1] + 2

\* --------------------------------------------------------------------- C9
\* C9: offsets are relative to the iteration's start: the first item has
\* offset 0 and the items yielded from s are the items (o, c) of the full
\* pass from 0 with o >= s, each as (o - s, c), in the same order.
Retagged(items, s) ==
  LET keep == SelectSeq(items, LAMBDA it : it[1] >= s)
  IN  [i \in 1..Len(keep) |-> <<keep[i][1] - s, keep[i][2]>>]

C9_OffsetsRelativeToStart ==
  status = "iter" =>
    LET full == Retagged(Collect(buf).items, start)
    IN  /\ Len(out) > 0 => out[1][1] = 0
        /\ Len(out) <= Len(full)
        /\ out = SubSeq(full, 1, Len(out))
        /\ Exhausted => out = full

\* An iteration begun after a decoded pair ran to its end and yielded items.
C9_Witness ==
  /\ Exhausted /\ start >= 2 /\ Len(out) >= 2
  /\ HighUnit(At(buf, start - 2)) /\ LowUnit(At(buf, start - 1))

\* -------------------------------------------------------------------- C10
\* C10: once a cursor exists no next() fails, whatever the units are, and
\* next() returns None only when every unit from the start offset to the end
\* of the buffer has been consumed.
Covered(q) ==
  \/ ItemsAt(q) # {}
  \/ /\ q > 0 /\ ItemsAt(q - 1) # {}
     /\ HighUnit(At(utf16, q - 1)) /\ LowUnit(At(utf16, q))

C10_MalformedNeverFails ==
  /\ status # "next_panic"
  /\ Exhausted =>
       /\ n = Len(buf) - start
       /\ \A q \in 0..(Len(buf) - start - 1) : Covered(q)

\* A buffer holding an unpaired low and an unpaired high surrogate was
\* iterated to its end.
C10_Witness ==
  /\ Exhausted /\ Len(out) >= 3
  /\ \E p \in start..(Len(buf) - 1) : Isolated(p) /\ HighUnit(At(buf, p))
  /\ \E p \in start..(Len(buf) - 1) : Isolated(p) /\ LowUnit(At(buf, p))

\* -------------------------------------------------------------------- C11
\* C11: cursors over the same buffer are independent: under every
\* interleaving each cursor yields the sequence it yields when run alone, and
\* no call changes the buffer or another cursor.
RunsAsAlone(c) ==
  LET alone == Collect(SliceFrom(buf, curs[c].start)).items
      k == Len(curs[c].out)
  IN  /\ k <= Len(alone)
      /\ curs[c].out = SubSeq(alone, 1, k)
      /\ curs[c].n = IF k < Len(alone) THEN alone[k + 1][1]
                     ELSE Len(buf) - curs[c].start
      /\ curs[c].last = "None" => k = Len(alone)

C11_CursorsIndependent ==
  /\ [](\A c \in CursorIds : curs[c].status = "iter" => RunsAsAlone(c))
  /\ [][/\ buf' = buf
        /\ \A c, d \in CursorIds :
             (c # d /\ curs'[c] # curs[c]) => curs'[d] = curs[d]]_vars

\* Two cursors over one buffer stand at different positions, both mid-way.
C11_Witness ==
  /\ \A c \in CursorIds : curs[c].status = "iter" /\ curs[c].out # <<>>
  /\ curs[1].start = curs[2].start
  /\ curs[1].n < curs[2].n
  /\ curs[1].last = "Some"

\* -------------------------------------------------------------------- C12
\* C12: the &str binding has the start-offset contract of the UTF-16 one, in
\* bytes: icu_chars(start) fails when start is past the byte length or
\* inside a multi-byte char, gives an empty sequence at the byte length, and
\* otherwise yields byte offsets relative to start, the first being 0.
ByteWidth(c) ==
  IF c <= 127 THEN 1 ELSE IF c <= 2047 THEN 2 ELSE IF c <= 65535 THEN 3 ELSE 4

\* The byte offset at which char number k + 1 of the string starts.
RECURSIVE ByteOffset(_, _)
ByteOffset(cs, k) ==
  IF k = 0 THEN 0 ELSE ByteOffset(cs, k - 1) + ByteWidth(cs[k])

\* The byte offsets at which a char of the string starts or the string ends.
CharStarts(cs) == {ByteOffset(cs, k) : k \in 0..Len(cs)}

\* The items an iteration from byte offset k is to yield: the chars that
\* start at or after k with their offsets less k.
ItemsFrom(cs, k) ==
  LET idx == SelectSeq([i \in 1..Len(cs) |-> i],
                       LAMBDA i : ByteOffset(cs, i - 1) >= k)
  IN  [j \in 1..Len(idx) |-> <<ByteOffset(cs, idx[j] - 1) - k, cs[idx[j]]>>]

C12_StrSameOffsetContract ==
  tstatus # "idle" =>
    /\ tstart \notin CharStarts(tchars) =>
         (tstatus = "begin_panic" /\ tout = <<>>)
    /\ tstart \in CharStarts(tchars) =>
         /\ tstatus = "iter"
         /\ Len(tout) > 0 => tout[1][1] = 0
         /\ Len(tout) <= Len(ItemsFrom(tchars, tstart))
         /\ tout = SubSeq(ItemsFrom(tchars, tstart), 1, Len(tout))
         /\ tlast = "None" => tout = ItemsFrom(tchars, tstart)
    /\ (tstart = ByteOffset(tchars, Len(tchars)) /\ tlast = "None") =>
         tout = <<>>

\* An iteration begun after a multi-byte char ran to its end.
C12_Witness ==
  /\ tstatus = "iter" /\ tlast = "None" /\ Len(tout) >= 2
  /\ tstart >= 3 /\ tout[2][1] >= 2

\* -------------------------------------------------------------------- C13
\* C13: every iteration terminates: a next() that returns an item advances
\* the position by 1, or by 2 for a high+low pair and only then; a cursor
\* begun at s returns at most len - s items; next() returns None when, and
\* only when, the position equals the length of the cursor's slice; and a
\* cursor that is pulled reaches that point.
YieldStep == status = "iter" /\ status' = "iter" /\ Len(out') = Len(out) + 1
NoneStep == status = "iter" /\ status' = "iter" /\ nones' = nones + 1
PairAt(s, i) ==
  i + 1 < Len(s) /\ HighUnit(At(s, i)) /\ LowUnit(At(s, i + 1))

C13_IterationTerminates ==
  /\ [][YieldStep =>
          /\ n < Len(utf16)
          /\ n' = IF PairAt(utf16, n) THEN n + 2 ELSE n + 1]_vars
  /\ [][NoneStep => (n = Len(utf16) /\ n' = n)]_vars
  /\ [](status = "iter" =>
          /\ Len(utf16) = Len(buf) - start
          /\ n <= Len(utf16)
          /\ Len(out) <= Len(buf) - start)
  /\ (status = "iter") ~> (Exhausted /\ n = Len(utf16))

\* A cursor begun past the start returned as many items as units were left,
\* then None.
C13_Witness ==
  /\ Exhausted /\ start > 0 /\ Len(out) = Len(buf) - start /\ Len(out) >= 2

\* -------------------------------------------------------------------- C14
\* C14: every code point the cursor yields is a Unicode scalar value; for a
\* pair the value is ((hi - 0xD800) << 10) + (lo - 0xDC00) + 0x10000, whose
\* differences do not underflow, whose shift and sums do not overflow 32
\* bits, and which lies in [0x10000, 0x10FFFF], so the conversion succeeds.
ScalarValue(c) == c >= 0 /\ c <= 1114111 /\ ~(c >= 55296 /\ c <= 57343)

ValidPairInput ==
  Len(pin) = 2 /\ HighUnit(pin[1]) /\ LowUnit(pin[2])

C14_YieldsScalarValues ==
  ppc = "decoded" =>
    /\ pdec.some /\ ~pdec.panic
    /\ ScalarValue(pdec.item[2])
    /\ ValidPairInput =>
         /\ parith # <<>>
         /\ parith.d1 >= 0 /\ parith.d1 <= 1023
         /\ parith.d2 >= 0 /\ parith.d2 <= 1023
         /\ parith.sh = parith.d1 * 1024 /\ parith.sh <= 1047552
         /\ parith.sum = parith.sh + parith.d2 + 65536
         /\ parith.sum >= 65536 /\ parith.sum <= 1114111
         /\ pdec.item[2] = parith.sum
         /\ EncodesAs(pdec.item[2], pin[1], pin[2])

\* The largest pair, 0xDBFF 0xDFFF, was decoded to U+10FFFF.
C14_Witness ==
  /\ ppc = "decoded" /\ pin = <<56319, 57343>>
  /\ pdec.item[2] = 1114111

\* -------------------------------------------------------------------- C15
\* C15: a unit outside [0xD800, 0xDFFF] at the cursor position yields one
\* item, at the unit's offset, whose code point has the unit's value, and
\* advances the cursor by one whatever the neighbouring units are.
Ordinary(v) == ~HighUnit(v) /\ ~LowUnit(v)

C15_OrdinaryUnitIsItself ==
  status = "iter" =>
    \A p \in start..(Len(buf) - 1) :
      Ordinary(At(buf, p)) =>
        /\ Cardinality(ItemsAt(p - start)) <= 1
        /\ Passed(p) => Cardinality(ItemsAt(p - start)) = 1
        /\ \A i \in ItemsAt(p - start) :
             /\ out[i][2] = At(buf, p)
             /\ i < Len(out) => out[i + 1][1] = p + 1 - start
             /\ i = Len(out) => n = p + 1 - start

\* A unit above 0xFF between a high and a low surrogate was yielded as
\* itself, and so was the low surrogate's replacement after it.
C15_Witness ==
  /\ status = "iter"
  /\ \E p \in (start + 1)..(Len(buf) - 2) :
       /\ At(buf, p) = 8364
       /\ HighUnit(At(buf, p - 1)) /\ LowUnit(At(buf, p + 1))
       /\ \E i \in ItemsAt(p - start) : i < Len(out) /\ out[i][2] = 8364

\* -------------------------------------------------------------------- C16
\* C16: validator and decoder agree: the offsets a full pass from 0 yields
\* are the positions p < len at which icu_chars(p) succeeds, which are the
\* positions p < len with no high surrogate at p-1 before a low one at p.
Positions == 0..(Len(buf) - 1)

C16_ValidatorMatchesDecoder ==
  (Exhausted /\ start = 0) =>
    /\ {out[i][1] : i \in 1..Len(out)}
         = {p \in Positions : icu_chars(buf, p).panic = "none"}
    /\ {out[i][1] : i \in 1..Len(out)}
         = {p \in Positions : ~SplitsPair(buf, p)}

\* A full pass over a buffer with a pair and an unpaired high surrogate
\* before an ordinary unit.
C16_Witness ==
  /\ Exhausted /\ start = 0 /\ Len(buf) = 4
  /\ \E p \in Positions : SplitsPair(buf, p)
  /\ \E p \in 0..(Len(buf) - 2) :
       HighUnit(At(buf, p)) /\ Ordinary(At(buf, p + 1))

\* -------------------------------------------------------------------- C17
\* C17: after any sequence of next() calls the position n of a cursor
\* satisfies 0 <= n <= len of its slice, also right after a two-unit
\* advance, and every index next() reads is below the slice length.
C17_PositionAndReadsInBounds ==
  status \in {"iter", "next_panic"} =>
    /\ n >= 0 /\ n <= Len(utf16)
    /\ \A i \in reads : i >= 0 /\ i < Len(utf16)

\* A pair at the very end of the slice was decoded: both its units were
\* read and the position is the slice length.
C17_Witness ==
  /\ status = "iter" /\ last = "Some" /\ Len(out) >= 2
  /\ n = Len(utf16) /\ reads = {n - 2, n - 1}

\* -------------------------------------------------------------------- C18
\* C18: an exhausted cursor stays exhausted: once next() has returned None,
\* every later next() on the same cursor returns None and leaves the
\* position (and the items yielded) as they were.
SameCursorStep == hops' = hops /\ start' = start

C18_ExhaustedStaysExhausted ==
  /\ [](nones >= 1 => (Exhausted /\ n = Len(utf16)))
  /\ [][(nones >= 1 /\ SameCursorStep) =>
          /\ status' = "iter"
          /\ last' = "None"
          /\ n' = n
          /\ out' = out
          /\ nones' = nones + 1]_vars

\* next() returned None twice in a row on a cursor that had yielded items.
C18_Witness ==
  Exhausted /\ nones >= 2 /\ Len(out) >= 2

\* -------------------------------------------------------------------- C19
\* C19: as_utf16_type is total and its classes partition the 16-bit values:
\* every unit in 0..=0xFFFF is classified without failing, as HighSurrogate
\* exactly in [0xD800, 0xDBFF], as LowSurrogate exactly in [0xDC00, 0xDFFF]
\* and as Normal, carrying the unit's own value, otherwise.
C19_ClassifierPartitions ==
  ppc \in {"classified", "decoded"} =>
    /\ pcls.ok
    /\ pcls.type \in {"Normal", "HighSurrogate", "LowSurrogate"}
    /\ pcls.type = "HighSurrogate" <=> HighUnit(pin[1])
    /\ pcls.type = "LowSurrogate" <=> LowUnit(pin[1])
    /\ pcls.type = "Normal" <=> Ordinary(pin[1])
    /\ pcls.type = "Normal" => pcls.val = pin[1]

\* The last high surrogate, 0xDBFF, was classified as one.
C19_Witness ==
  /\ ppc = "classified" /\ pin = <<56319>>
  /\ pcls.type = "HighSurrogate"

====
